---- MODULE Spec2Model ----
(***************************************************************************)
(* A model of modd's file-change watcher (modd.go): the Mod value and its  *)
(* set operations, the batch function (debounced accumulation of notify    *)
(* events and the existence-driven resolution heuristics), and the Watch   *)
(* session (setup, the worker goroutine, post-processing and the send to   *)
(* the consumer channel).                                                  *)
(*                                                                         *)
(* Strings are sequences of byte values, compared as Go compares strings.  *)
(* A Go map[string]bool that only ever stores true is the set of its keys. *)
(* A nil slice and an empty slice are both <<>> (the code only takes their *)
(* len and ranges over them).                                              *)
(***************************************************************************)
EXTENDS Integers, Sequences, FiniteSets, TLC

(***************************************************************************)
(* Bounds of the model.                                                    *)
(***************************************************************************)
\* RawEvents the OS-integration collaborator produces in one run.
MaxEvents == 3
\* Longest Changed/Deleted/Added slice of a Mod handed to All and Empty.
MaxLen == 2

(***************************************************************************)
(* Program constants.                                                      *)
(***************************************************************************)
\* batchTime = 200ms, counted in clock ticks of 100ms.
BatchTime == 2
\* Capacity of the notify event channel.
EvtChanCap == 1024
\* The byte '/'.
Slash == 47

(***************************************************************************)
(* Strings                                                                 *)
(***************************************************************************)
Range(s) == {s[i] : i \in DOMAIN s}

\* Go's string order (bytewise lexicographic), as used by sort.Strings.
RECURSIVE StrLess(_, _)
StrLess(a, b) ==
    IF a = <<>> THEN b # <<>>
    ELSE IF b = <<>> THEN FALSE
    ELSE IF a[1] # b[1] THEN a[1] < b[1]
    ELSE StrLess(Tail(a), Tail(b))

\* strings.Index(s, sub) == 0
HasPrefix(s, sub) ==
    /\ Len(sub) <= Len(s)
    /\ SubSeq(s, 1, Len(sub)) = sub

\* One position of an insertion: x goes before the first element it is less than.
RECURSIVE InsertSorted(_, _)
InsertSorted(x, s) ==
    IF s = <<>> THEN <<x>>
    ELSE IF StrLess(x, Head(s)) THEN <<x>> \o s
    ELSE <<Head(s)>> \o InsertSorted(x, Tail(s))

\* sort.Strings(keys)
RECURSIVE SortStrings(_)
SortStrings(s) ==
    IF s = <<>> THEN <<>> ELSE InsertSorted(Head(s), SortStrings(Tail(s)))

\* The keys of a map in one iteration order (for k := range m).
RECURSIVE MapOrder(_)
MapOrder(S) ==
    IF S = {} THEN <<>>
    ELSE LET k == CHOOSE x \in S : TRUE IN <<k>> \o MapOrder(S \ {k})

\* All iteration orders of a map.
Orders(S) ==
    {o \in [1..Cardinality(S) -> S] : \A i, j \in DOMAIN o : i # j => o[i] # o[j]}

\* _keys: the keys of the map, sorted; nil for an empty map.  The order in
\* which the loop fills the slice does not survive the sort.
_keys(m) ==
    IF Cardinality(m) > 0 THEN SortStrings(MapOrder(m)) ELSE <<>>

(***************************************************************************)
(* Mod                                                                     *)
(***************************************************************************)
Mod(changed, deleted, added) ==
    [Changed |-> changed, Deleted |-> deleted, Added |-> added]

NilMod == Mod(<<>>, <<>>, <<>>)

\* All with the loop over mod.Deleted left out.
All_NoDeleted(mod) == _keys(Range(mod.Changed) \cup Range(mod.Added))

\* Mod.All
All(mod) ==
    _keys(Range(mod.Changed) \cup Range(mod.Added) \cup Range(mod.Deleted))

\* Empty that looks at Changed alone.
Empty_ChangedOnly(mod) ==
    IF Len(mod.Changed) > 0 THEN FALSE ELSE TRUE

\* Empty with >= written for >.
Empty_OffByOne(mod) ==
    IF Len(mod.Changed) >= 0 \/ Len(mod.Deleted) >= 0 \/ Len(mod.Added) >= 0
    THEN FALSE
    ELSE TRUE

\* Mod.Empty
Empty(mod) ==
    IF Len(mod.Changed) > 0 \/ Len(mod.Deleted) > 0 \/ Len(mod.Added) > 0
    THEN FALSE
    ELSE TRUE

(***************************************************************************)
(* Paths                                                                   *)
(*                                                                         *)
(* The paths of the model are clean (no ".", "..", doubled or trailing     *)
(* separators), so filepath.Clean leaves them as they are; filepath.ToSlash*)
(* is the identity on a platform whose separator is '/'.                   *)
(***************************************************************************)
\* The process's working directory, "/".
Cwd == <<Slash>>

\* The string ".", which filepath.Rel returns for a path equal to its base.
Dot == <<46>>

\* filepath.IsAbs
IsAbs(p) == p # <<>> /\ p[1] = Slash

\* filepath.Join of two clean elements: empty elements are ignored, "." adds
\* nothing, and no separator is doubled.
Join(a, b) ==
    IF a = <<>> THEN b
    ELSE IF b = <<>> \/ b = Dot THEN a
    ELSE IF a[Len(a)] = Slash THEN a \o b
    ELSE a \o <<Slash>> \o b

\* filepath.Abs: an absolute path is returned as it is; a relative one is
\* joined to the working directory, and fails ("", err) when os.Getwd fails.
Abs(p, cwdOK) ==
    IF IsAbs(p) THEN [path |-> p, err |-> FALSE]
    ELSE IF cwdOK THEN [path |-> Join(Cwd, p), err |-> FALSE]
    ELSE [path |-> <<>>, err |-> TRUE]

\* isUnder
isUnder(parent, child) ==
    IF /\ HasPrefix(child, parent)
       /\ (Len(child) = Len(parent) \/ child[Len(parent) + 1] = Slash)
    THEN TRUE
    ELSE FALSE

\* filepath.Rel(basepath, targpath) for a target that is under the base: the
\* rest of the target after the base and its separator, "." when they are
\* equal; an error when only one of the two is absolute.
Rel(basepath, targpath) ==
    IF IsAbs(basepath) # IsAbs(targpath) THEN [path |-> <<>>, err |-> TRUE]
    ELSE IF Len(targpath) = Len(basepath) THEN [path |-> Dot, err |-> FALSE]
    ELSE [path |-> SubSeq(targpath, Len(basepath) + 2, Len(targpath)),
          err |-> FALSE]

\* normPath: the first base the path is under decides.
RECURSIVE normPath(_, _, _)
normPath(bases, abspath, cwdOK) ==
    IF bases = <<>> THEN [path |-> abspath, err |-> FALSE]
    ELSE LET base == Head(bases)
             absbase == Abs(base, cwdOK)
         IN IF isUnder(absbase.path, abspath)
            THEN IF absbase.err THEN [path |-> <<>>, err |-> TRUE]
                 ELSE LET relpath == Rel(absbase.path, abspath)
                      IN IF relpath.err THEN [path |-> <<>>, err |-> TRUE]
                         ELSE [path |-> Join(base, relpath.path), err |-> FALSE]
            ELSE normPath(Tail(bases), abspath, cwdOK)

\* normPaths: every path normalised, in place; (nil, err) at the first error.
normPaths(bases, abspaths, cwdOK) ==
    LET norm == [i \in DOMAIN abspaths |-> normPath(bases, abspaths[i], cwdOK)]
    IN IF \E i \in DOMAIN abspaths : norm[i].err
       THEN [val |-> <<>>, err |-> TRUE]
       ELSE [val |-> [i \in DOMAIN abspaths |-> norm[i].path], err |-> FALSE]

\* Mod.normPaths: (nil, err) when one of the three lists fails.
ModNormPaths(mod, bases, cwdOK) ==
    LET c == normPaths(bases, mod.Changed, cwdOK)
        d == normPaths(bases, mod.Deleted, cwdOK)
        a == normPaths(bases, mod.Added, cwdOK)
    IN IF c.err \/ d.err \/ a.err
       THEN [mod |-> NilMod, nil |-> TRUE, err |-> TRUE]
       ELSE [mod |-> Mod(c.val, d.val, a.val), nil |-> FALSE, err |-> FALSE]

(***************************************************************************)
(* Exclusion filtering.  filterFiles is defined in a file of the package   *)
(* that is not at hand; it is modelled from the specification: a pure      *)
(* function of a list of paths and a list of glob-like patterns that drops *)
(* the paths a pattern matches, keeps the order of the others, and fails   *)
(* on a malformed pattern.  Here a pattern is a literal path, or malformed *)
(* when it opens a character class that it never closes; the failure shows *)
(* when a path is matched against the pattern.                             *)
(***************************************************************************)
Malformed(pattern) == 91 \in Range(pattern) /\ 93 \notin Range(pattern)

Excluded(file, excludes) == \E i \in DOMAIN excludes : excludes[i] = file

RECURSIVE KeepIncluded(_, _)
KeepIncluded(files, excludes) ==
    IF files = <<>> THEN <<>>
    ELSE IF Excluded(Head(files), excludes)
         THEN KeepIncluded(Tail(files), excludes)
         ELSE <<Head(files)>> \o KeepIncluded(Tail(files), excludes)

filterFiles(files, excludes) ==
    IF /\ \E i \in DOMAIN excludes : Malformed(excludes[i])
       /\ files # <<>>
    THEN [val |-> <<>>, err |-> TRUE]
    ELSE [val |-> KeepIncluded(files, excludes), err |-> FALSE]

\* Mod.Filter: a new Mod of the filtered lists; (nil, err) when one fails.
Filter(mod, excludes) ==
    LET c == filterFiles(mod.Changed, excludes)
        d == filterFiles(mod.Deleted, excludes)
        a == filterFiles(mod.Added, excludes)
    IN IF c.err \/ d.err \/ a.err
       THEN [mod |-> NilMod, nil |-> TRUE, err |-> TRUE]
       ELSE [mod |-> Mod(c.val, d.val, a.val), nil |-> FALSE, err |-> FALSE]

(***************************************************************************)
(* The world of the model                                                  *)
(***************************************************************************)
\* The absolute paths notify reports events for: "/a/f" and "/b/f".
EventPaths == {<<Slash, 97, Slash, 102>>, <<Slash, 98, Slash, 102>>}

\* notify.Create, notify.Remove, notify.Write, notify.Rename: the events of
\* notify.All.
Kinds == {"Create", "Remove", "Write", "Rename"}

\* notify.EventInfo: Path() and Event().
Events == [path : EventPaths, kind : Kinds]

\* The lists of roots Watch is called with: <<"/a">> and <<"a", "/b">>.
RootLists == {<< <<Slash, 97>> >>, << <<97>>, <<Slash, 98>> >>}

\* The lists of exclusion patterns Watch is called with: none, <<"a/f">>
\* and the malformed <<"[">>.
ExcludeLists == {<<>>, << <<97, Slash, 102>> >>, << <<91>> >>}

\* What happens to one root in Watch's setup loop: os.Stat finds a
\* directory or a file and notify.Watch registers it, os.Stat fails, or
\* notify.Watch fails.
SetupOutcomes == {"dir", "file", "nostat", "noreg"}

\* The strings handed to All and Empty: "a", "ab" and "b".
ModPaths == {<<97>>, <<97, 98>>, <<98>>}

SeqsUpTo(S, n) == UNION {[1..k -> S] : k \in 0..n}

Min(S) == CHOOSE x \in S : \A y \in S : x <= y

VARIABLES
    \* Watch and the notify library
    watchRet,   \* what Watch returned: "pending" (not called), "nil", "err"
    watches,    \* the registrations notify.Watch accepted
    tried,      \* the outcome of each root the setup loop reached
    paths,      \* Watch's paths argument, as the worker closure holds it
    excludes,   \* Watch's excludes argument
    evtch,      \* the buffered channel of notify events
    produced,   \* events notify has produced so far
    \* the worker goroutine
    pc,         \* "none", "select", "returned", "send", "panic"
    added, removed, changed, renamed,   \* batch's four maps
    timer,      \* ticks since the pending time.After(batchTime) was made
    ret,        \* batch's result, then the Mod offered on ch
    lastLog,    \* the last Logger.Shout: "none", "norm", "filter"
    \* the record of the current cycle
    rcvd,       \* the events batch received in this cycle
    checks,     \* the answers exists.Check gave in each of the three loops
    quiet,      \* ticks since the last event was received (or the cycle began)
    span,       \* ticks since the cycle began, up to BatchTime + 1
    \* the flow of events and Mods through the session
    cycle,      \* cycles completed so far that had received an event
    outbox,     \* the sends blocked on ch: the Mod and the cycle it is of
    lastDelivered,  \* the cycle of the Mod the consumer received last
    consumed,   \* events the worker has received from evtch so far
    backlog,    \* events that were buffered when the last send completed
                \* and have not been received yet
    \* a Mod and the results of calling All, Empty and Filter on it
    m, allRet, emptyRet, called,
    filterRet,  \* what m.Filter(fexcl) returned
    fexcl       \* the patterns Filter was called with

vars == <<watchRet, watches, tried, paths, excludes, evtch, produced,
          pc, added, removed, changed, renamed, timer, ret, lastLog,
          rcvd, checks, quiet, span, cycle, outbox, lastDelivered, consumed,
          backlog, m, allRet, emptyRet, called, filterRet, fexcl>>

setupVars == <<watchRet, watches, tried, paths, excludes>>
mapVars == <<added, removed, changed, renamed>>
cycleVars == <<rcvd, checks, quiet, span>>
flowVars == <<cycle, outbox, lastDelivered, consumed, backlog>>
modVars == <<m, allRet, emptyRet, called, filterRet, fexcl>>

NoChecks == [ren |-> <<>>, add |-> <<>>, rem |-> <<>>]

(***************************************************************************)
(* batch                                                                   *)
(***************************************************************************)
\* A call of batch that goes on with the maps of the call before it.
BatchCall_MapsReused ==
    /\ UNCHANGED <<added, removed, changed, renamed>>
    /\ timer' = 0
    /\ rcvd' = {} /\ checks' = NoChecks /\ quiet' = 0 /\ span' = 0

\* A call of batch: four empty maps, and the first select with its timer.
BatchCall ==
    /\ added' = {} /\ removed' = {} /\ changed' = {} /\ renamed' = {}
    /\ timer' = 0
    /\ rcvd' = {} /\ checks' = NoChecks /\ quiet' = 0 /\ span' = 0

\* The loop over renamed with the two branches of its test exchanged.
RECURSIVE RenamedLoop_Inverted(_, _, _)
RenamedLoop_Inverted(order, exists, st) ==
    IF order = <<>> THEN st
    ELSE LET k == Head(order)
         IN RenamedLoop_Inverted(Tail(order), exists,
                IF exists[k] THEN [st EXCEPT !.removed = @ \cup {k}]
                ELSE [st EXCEPT !.added = @ \cup {k}])

\* for k := range renamed
RECURSIVE RenamedLoop(_, _, _)
RenamedLoop(order, exists, st) ==
    IF order = <<>> THEN st
    ELSE LET k == Head(order)
         IN RenamedLoop(Tail(order), exists,
                IF exists[k] THEN [st EXCEPT !.added = @ \cup {k}]
                ELSE [st EXCEPT !.removed = @ \cup {k}])

\* The loop over added that takes every path to exist, whatever the checker
\* says.
RECURSIVE AddedLoop_TrustsCreate(_, _, _)
AddedLoop_TrustsCreate(order, exists, st) ==
    IF order = <<>> THEN st
    ELSE LET k == Head(order)
         IN AddedLoop_TrustsCreate(Tail(order), exists,
                [st EXCEPT !.changed = @ \ {k}, !.removed = @ \ {k}])

\* The loop over added that leaves a path that exists in changed.
RECURSIVE AddedLoop_KeepsChanged(_, _, _)
AddedLoop_KeepsChanged(order, exists, st) ==
    IF order = <<>> THEN st
    ELSE LET k == Head(order)
         IN AddedLoop_KeepsChanged(Tail(order), exists,
                IF exists[k]
                THEN [st EXCEPT !.removed = @ \ {k}]
                ELSE [st EXCEPT !.added = @ \ {k}, !.removed = @ \ {k},
                                !.changed = @ \ {k}])

\* The loop over added that strikes a vanished path from added alone.
RECURSIVE AddedLoop_StrikesAddedOnly(_, _, _)
AddedLoop_StrikesAddedOnly(order, exists, st) ==
    IF order = <<>> THEN st
    ELSE LET k == Head(order)
         IN AddedLoop_StrikesAddedOnly(Tail(order), exists,
                IF exists[k]
                THEN [st EXCEPT !.changed = @ \ {k}, !.removed = @ \ {k}]
                ELSE [st EXCEPT !.added = @ \ {k}])

\* for k := range added
RECURSIVE AddedLoop(_, _, _)
AddedLoop(order, exists, st) ==
    IF order = <<>> THEN st
    ELSE LET k == Head(order)
         IN AddedLoop(Tail(order), exists,
                IF exists[k]
                THEN [st EXCEPT !.changed = @ \ {k}, !.removed = @ \ {k}]
                ELSE [st EXCEPT !.added = @ \ {k}, !.removed = @ \ {k},
                                !.changed = @ \ {k}])

\* The loop over removed that leaves a deleted path in changed.
RECURSIVE RemovedLoop_KeepsChanged(_, _, _)
RemovedLoop_KeepsChanged(order, exists, st) ==
    IF order = <<>> THEN st
    ELSE LET k == Head(order)
         IN RemovedLoop_KeepsChanged(Tail(order), exists,
                IF exists[k]
                THEN [st EXCEPT !.removed = @ \ {k}]
                ELSE [st EXCEPT !.added = @ \ {k}])

\* The loop over removed that takes a path that exists out of changed too.
RECURSIVE RemovedLoop_ExistsStrikesChanged(_, _, _)
RemovedLoop_ExistsStrikesChanged(order, exists, st) ==
    IF order = <<>> THEN st
    ELSE LET k == Head(order)
         IN RemovedLoop_ExistsStrikesChanged(Tail(order), exists,
                IF exists[k]
                THEN [st EXCEPT !.removed = @ \ {k}, !.changed = @ \ {k}]
                ELSE [st EXCEPT !.added = @ \ {k}, !.changed = @ \ {k}])

\* The loop over removed with the two branches of its test exchanged.
RECURSIVE RemovedLoop_Inverted(_, _, _)
RemovedLoop_Inverted(order, exists, st) ==
    IF order = <<>> THEN st
    ELSE LET k == Head(order)
         IN RemovedLoop_Inverted(Tail(order), exists,
                IF ~exists[k]
                THEN [st EXCEPT !.removed = @ \ {k}]
                ELSE [st EXCEPT !.added = @ \ {k}, !.changed = @ \ {k}])

\* for k := range removed
RECURSIVE RemovedLoop(_, _, _)
RemovedLoop(order, exists, st) ==
    IF order = <<>> THEN st
    ELSE LET k == Head(order)
         IN RemovedLoop(Tail(order), exists,
                IF exists[k]
                THEN [st EXCEPT !.removed = @ \ {k}]
                ELSE [st EXCEPT !.added = @ \ {k}, !.changed = @ \ {k}])

\* The switch with a Write put into added, like a Create.
Classify_WriteAsCreate(st, evt) ==
    IF evt.kind = "Create" THEN [st EXCEPT !.added = @ \cup {evt.path}]
    ELSE IF evt.kind = "Remove" THEN [st EXCEPT !.removed = @ \cup {evt.path}]
    ELSE IF evt.kind = "Write" THEN [st EXCEPT !.added = @ \cup {evt.path}]
    ELSE IF evt.kind = "Rename" THEN [st EXCEPT !.renamed = @ \cup {evt.path}]
    ELSE st

\* The switch with the later of Create and Remove taking the path out of the
\* other's map.
Classify_LastWins(st, evt) ==
    IF evt.kind = "Create"
    THEN [st EXCEPT !.added = @ \cup {evt.path}, !.removed = @ \ {evt.path}]
    ELSE IF evt.kind = "Remove"
    THEN [st EXCEPT !.removed = @ \cup {evt.path}, !.added = @ \ {evt.path}]
    ELSE IF evt.kind = "Write" THEN [st EXCEPT !.changed = @ \cup {evt.path}]
    ELSE IF evt.kind = "Rename" THEN [st EXCEPT !.renamed = @ \cup {evt.path}]
    ELSE st

\* switch evt.Event(): the path goes into the map of the event's kind.
Classify(st, evt) ==
    IF evt.kind = "Create" THEN [st EXCEPT !.added = @ \cup {evt.path}]
    ELSE IF evt.kind = "Remove" THEN [st EXCEPT !.removed = @ \cup {evt.path}]
    ELSE IF evt.kind = "Write" THEN [st EXCEPT !.changed = @ \cup {evt.path}]
    ELSE IF evt.kind = "Rename" THEN [st EXCEPT !.renamed = @ \cup {evt.path}]
    ELSE st

\* The receive of an event by a worker that does not wait for its send: it
\* also takes events while a Mod is on offer.
BatchRecv_WhileSending ==
    /\ pc \in {"select", "send"}
    /\ evtch # <<>>
    /\ LET evt == Head(evtch)
           st == Classify([added |-> added, removed |-> removed,
                           changed |-> changed, renamed |-> renamed], evt)
       IN /\ added' = st.added
          /\ removed' = st.removed
          /\ changed' = st.changed
          /\ renamed' = st.renamed
          /\ rcvd' = rcvd \cup {evt}
    /\ evtch' = Tail(evtch)
    /\ consumed' = consumed + 1
    /\ backlog' = IF backlog > 0 THEN backlog - 1 ELSE 0
    /\ timer' = 0
    /\ quiet' = 0
    /\ UNCHANGED <<setupVars, produced, pc, ret, lastLog, checks, span,
                   cycle, outbox, lastDelivered, modVars>>

\* The receive of an event with the timer made once, before the loop: it
\* runs on across the events.
BatchRecv_TimerNotRestarted ==
    /\ pc = "select"
    /\ evtch # <<>>
    /\ LET evt == Head(evtch)
           st == Classify([added |-> added, removed |-> removed,
                           changed |-> changed, renamed |-> renamed], evt)
       IN /\ added' = st.added
          /\ removed' = st.removed
          /\ changed' = st.changed
          /\ renamed' = st.renamed
          /\ rcvd' = rcvd \cup {evt}
    /\ evtch' = Tail(evtch)
    /\ consumed' = consumed + 1
    /\ backlog' = IF backlog > 0 THEN backlog - 1 ELSE 0
    /\ quiet' = 0
    /\ UNCHANGED <<setupVars, produced, pc, timer, ret, lastLog, checks, span,
                   cycle, outbox, lastDelivered, modVars>>

\* case evt := <-ch: the event goes into the map of its kind, and the loop
\* comes back to a select with a new timer.  (Logger.SayAs writes to a log
\* that is quiet unless the caller replaces it.)
BatchRecv ==
    /\ pc = "select"
    /\ evtch # <<>>
    /\ LET evt == Head(evtch)
           st == Classify([added |-> added, removed |-> removed,
                           changed |-> changed, renamed |-> renamed], evt)
       IN /\ added' = st.added
          /\ removed' = st.removed
          /\ changed' = st.changed
          /\ renamed' = st.renamed
          /\ rcvd' = rcvd \cup {evt}
    /\ evtch' = Tail(evtch)
    /\ consumed' = consumed + 1
    /\ backlog' = IF backlog > 0 THEN backlog - 1 ELSE 0
    /\ timer' = 0
    /\ quiet' = 0
    /\ UNCHANGED <<setupVars, produced, pc, ret, lastLog, checks, span,
                   cycle, outbox, lastDelivered, modVars>>

\* case <-time.After(batchTime): the three loops, each in some iteration
\* order of its map and with the answers the checker gives at that time,
\* then the three sorted lists.  The maps stay as the loops left them until
\* the next call makes new ones.
BatchTimeout ==
    /\ pc = "select"
    /\ timer = BatchTime
    /\ \E e1 \in [renamed -> BOOLEAN], o1 \in Orders(renamed) :
         LET s1 == RenamedLoop(o1, e1, [added |-> added, removed |-> removed,
                                       changed |-> changed])
         IN \E e2 \in [s1.added -> BOOLEAN], o2 \in Orders(s1.added) :
              LET s2 == AddedLoop(o2, e2, s1)
              IN \E e3 \in [s2.removed -> BOOLEAN], o3 \in Orders(s2.removed) :
                   LET s3 == RemovedLoop(o3, e3, s2)
                   IN /\ ret' = Mod(_keys(s3.changed), _keys(s3.removed),
                                    _keys(s3.added))
                      /\ added' = s3.added
                      /\ removed' = s3.removed
                      /\ changed' = s3.changed
                      /\ checks' = [ren |-> e1, add |-> e2, rem |-> e3]
    /\ pc' = "returned"
    /\ timer' = 0
    /\ cycle' = IF rcvd # {} THEN cycle + 1 ELSE cycle
    /\ UNCHANGED <<setupVars, evtch, produced, lastLog, renamed, rcvd, quiet,
                   span, outbox, lastDelivered, consumed, backlog, modVars>>

\* Time passes while the worker waits in the select with nothing to receive.
Tick ==
    /\ pc = "select"
    /\ evtch = <<>>
    /\ timer < BatchTime
    /\ timer' = timer + 1
    /\ quiet' = quiet + 1
    /\ span' = IF span <= BatchTime THEN span + 1 ELSE span
    /\ UNCHANGED <<setupVars, evtch, produced, pc, mapVars, ret, lastLog,
                   rcvd, checks, flowVars, modVars>>

(***************************************************************************)
(* Watch                                                                   *)
(***************************************************************************)
\* The roots the setup loop went through before it stopped: all of them, or
\* those up to the first one that os.Stat or notify.Watch refused.
FirstFailure(outcome) ==
    LET bad == {i \in DOMAIN outcome : outcome[i] \in {"nostat", "noreg"}}
    IN IF bad = {} THEN 0 ELSE Min(bad)

\* Watch that goes on to its worker although a root failed.
Watch_ErrorIgnored ==
    /\ watchRet = "pending"
    /\ \E ps \in RootLists, xs \in ExcludeLists :
         \E outcome \in [DOMAIN ps -> SetupOutcomes] :
           /\ watches' = {[root |-> ps[i], rec |-> outcome[i] = "dir"] :
                             i \in {j \in DOMAIN ps : outcome[j] \in {"dir", "file"}}}
           /\ tried' = outcome
           /\ paths' = ps
           /\ excludes' = xs
           /\ watchRet' = IF FirstFailure(outcome) = 0 THEN "nil" ELSE "err"
           /\ pc' = "select"
           /\ BatchCall
    /\ UNCHANGED <<evtch, produced, ret, lastLog, flowVars, modVars>>

\* Watch(paths, excludes, batchTime, ch): the setup loop over the roots (a
\* directory is registered recursively, as p/...), which returns the first
\* error, and then the start of the worker, which calls batch.
Watch ==
    /\ watchRet = "pending"
    /\ \E ps \in RootLists, xs \in ExcludeLists :
         \E outcome \in [DOMAIN ps -> SetupOutcomes] :
           LET stop == FirstFailure(outcome)
               done == IF stop = 0 THEN DOMAIN ps ELSE 1..(stop - 1)
           IN /\ watches' = {[root |-> ps[i], rec |-> outcome[i] = "dir"] :
                                i \in done}
              /\ tried' = IF stop = 0 THEN outcome ELSE SubSeq(outcome, 1, stop)
              /\ paths' = ps
              /\ excludes' = xs
              /\ IF stop = 0
                 THEN /\ watchRet' = "nil"
                      /\ pc' = "select"
                      /\ BatchCall
                 ELSE /\ watchRet' = "err"
                      /\ pc' = "none"
                      /\ UNCHANGED <<mapVars, timer, cycleVars>>
    /\ UNCHANGED <<evtch, produced, ret, lastLog, flowVars, modVars>>

\* The paths a registration covers: everything under a directory registered
\* as p/..., the path itself otherwise (notify resolves a relative path
\* against the working directory).
Watched(path) ==
    \E w \in watches :
        LET root == Abs(w.root, TRUE).path
        IN IF w.rec THEN isUnder(root, path) ELSE root = path

\* notify puts an event of a registered path on the channel.  A crashed
\* process produces nothing.
Notify ==
    /\ pc # "panic"
    /\ produced < MaxEvents
    /\ Len(evtch) < EvtChanCap
    /\ \E evt \in Events :
         /\ Watched(evt.path)
         /\ evtch' = Append(evtch, evt)
    /\ produced' = produced + 1
    /\ UNCHANGED <<setupVars, pc, mapVars, timer, ret, lastLog, cycleVars,
                   flowVars, modVars>>

\* The worker with the send handed to a goroutine of its own
\* (go func() { ch <- *ret }()): the worker does not wait for the consumer.
Postprocess_SendInGoroutine ==
    /\ pc = "returned"
    /\ \E cwdOK \in BOOLEAN :
         LET normed == ModNormPaths(ret, paths, cwdOK)
             filtered == Filter(normed.mod, excludes)
         IN IF normed.err \/ filtered.err
            THEN /\ lastLog' = IF normed.err THEN "norm" ELSE "filter"
                 /\ pc' = "panic"
                 /\ ret' = NilMod
                 /\ UNCHANGED <<mapVars, timer, cycleVars, outbox>>
            ELSE /\ pc' = "select"
                 /\ ret' = NilMod
                 /\ BatchCall
                 /\ outbox' = IF ~Empty(filtered.mod)
                              THEN outbox \cup {[cycle |-> cycle, mod |-> filtered.mod]}
                              ELSE outbox
                 /\ UNCHANGED lastLog
    /\ UNCHANGED <<setupVars, evtch, produced, cycle, lastDelivered, consumed,
                   backlog, modVars>>

\* The worker after batch has returned: normPaths, Filter, the test of
\* Empty, up to the send on ch.  After an error normPaths and Filter return
\* a nil *Mod, the error is logged, and the next use of ret, ret.Filter or
\* ret.Empty, dereferences that nil pointer: the goroutine panics.  Whether
\* os.Getwd succeeds (cwdOK) is the environment's choice.
Postprocess ==
    /\ pc = "returned"
    /\ \E cwdOK \in BOOLEAN :
         LET normed == ModNormPaths(ret, paths, cwdOK)
             filtered == Filter(normed.mod, excludes)
         IN IF normed.err
            THEN /\ lastLog' = "norm"
                 /\ pc' = "panic"
                 /\ ret' = NilMod
                 /\ UNCHANGED <<mapVars, timer, cycleVars, outbox>>
            ELSE IF filtered.err
            THEN /\ lastLog' = "filter"
                 /\ pc' = "panic"
                 /\ ret' = NilMod
                 /\ UNCHANGED <<mapVars, timer, cycleVars, outbox>>
            ELSE IF ~Empty(filtered.mod)
            THEN /\ pc' = "send"
                 /\ ret' = filtered.mod
                 /\ outbox' = outbox \cup {[cycle |-> cycle, mod |-> filtered.mod]}
                 /\ UNCHANGED <<lastLog, mapVars, timer, cycleVars>>
            ELSE /\ pc' = "select"
                 /\ ret' = NilMod
                 /\ BatchCall
                 /\ UNCHANGED <<lastLog, outbox>>
    /\ UNCHANGED <<setupVars, evtch, produced, cycle, lastDelivered, consumed,
                   backlog, modVars>>

\* The consumer receives from ch (for mod := range modchan): one of the
\* blocked sends completes, and its sender goes on.  The worker is the only
\* sender; it calls batch again.
Receive ==
    /\ \E s \in outbox :
         /\ outbox' = outbox \ {s}
         /\ lastDelivered' = s.cycle
    /\ backlog' = Len(evtch)
    /\ IF pc = "send"
       THEN /\ pc' = "select"
            /\ ret' = NilMod
            /\ BatchCall
       ELSE UNCHANGED <<pc, ret, mapVars, timer, cycleVars>>
    /\ UNCHANGED <<setupVars, evtch, produced, lastLog, cycle, consumed, modVars>>

Init ==
    /\ watchRet = "pending" /\ watches = {} /\ tried = <<>>
    /\ paths = <<>> /\ excludes = <<>>
    /\ evtch = <<>> /\ produced = 0
    /\ pc = "none"
    /\ added = {} /\ removed = {} /\ changed = {} /\ renamed = {}
    /\ timer = 0 /\ ret = NilMod /\ lastLog = "none"
    /\ rcvd = {} /\ checks = NoChecks /\ quiet = 0 /\ span = 0
    /\ cycle = 0 /\ outbox = {} /\ lastDelivered = 0 /\ consumed = 0
    /\ backlog = 0
    /\ m = NilMod /\ allRet = <<>> /\ emptyRet = TRUE /\ called = {}
    /\ filterRet = [mod |-> NilMod, nil |-> TRUE, err |-> FALSE] /\ fexcl = <<>>

Next ==
    \/ Watch
    \/ Notify
    \/ BatchRecv
    \/ Tick
    \/ BatchTimeout
    \/ Postprocess
    \/ Receive

Spec == Init /\ [][Next]_vars

\* The session with a consumer that keeps receiving: main's loop over
\* modchan takes a Mod whenever one is offered.
SpecFair == Init /\ [][Next]_vars /\ WF_vars(Receive)

(***************************************************************************)
(* All and Empty, called on any Mod                                        *)
(***************************************************************************)
Mods ==
    [Changed : SeqsUpTo(ModPaths, MaxLen), Deleted : SeqsUpTo(ModPaths, MaxLen),
     Added : SeqsUpTo(ModPaths, MaxLen)]

CallAll ==
    /\ "All" \notin called
    /\ allRet' = All(m)
    /\ called' = called \cup {"All"}
    /\ UNCHANGED <<setupVars, evtch, produced, pc, mapVars, timer, ret,
                   lastLog, cycleVars, flowVars, m, emptyRet, filterRet, fexcl>>

CallEmpty ==
    /\ "Empty" \notin called
    /\ emptyRet' = Empty(m)
    /\ called' = called \cup {"Empty"}
    /\ UNCHANGED <<setupVars, evtch, produced, pc, mapVars, timer, ret,
                   lastLog, cycleVars, flowVars, m, allRet, filterRet, fexcl>>

\* The exclude lists Filter is called with: none, one of the Mod's
\* paths ("a"), a malformed pattern ("[").
ModExcludes == {<<>>, << <<97>> >>, << <<91>> >>}

\* mod.Filter(excludes): the result is a Mod of its own; the receiver's
\* fields are read and never assigned.
CallFilter ==
    /\ "Filter" \notin called
    /\ \E xs \in ModExcludes :
         /\ filterRet' = Filter(m, xs)
         /\ fexcl' = xs
    /\ m' = m
    /\ called' = called \cup {"Filter"}
    /\ UNCHANGED <<setupVars, evtch, produced, pc, mapVars, timer, ret,
                   lastLog, cycleVars, flowVars, allRet, emptyRet>>

InitMod ==
    /\ watchRet = "pending" /\ watches = {} /\ tried = <<>>
    /\ paths = <<>> /\ excludes = <<>>
    /\ evtch = <<>> /\ produced = 0
    /\ pc = "none"
    /\ added = {} /\ removed = {} /\ changed = {} /\ renamed = {}
    /\ timer = 0 /\ ret = NilMod /\ lastLog = "none"
    /\ rcvd = {} /\ checks = NoChecks /\ quiet = 0 /\ span = 0
    /\ cycle = 0 /\ outbox = {} /\ lastDelivered = 0 /\ consumed = 0
    /\ backlog = 0
    /\ m \in Mods /\ allRet = <<>> /\ emptyRet = TRUE /\ called = {}
    /\ filterRet = [mod |-> NilMod, nil |-> TRUE, err |-> FALSE] /\ fexcl = <<>>

NextMod == CallAll \/ CallEmpty \/ CallFilter

SpecMod == InitMod /\ [][NextMod]_vars

(***************************************************************************)
(* Properties                                                              *)
(***************************************************************************)
In(k, list) == k \in Range(list)

OnlyAdded(k) == In(k, ret.Added) /\ ~In(k, ret.Changed) /\ ~In(k, ret.Deleted)
OnlyDeleted(k) == In(k, ret.Deleted) /\ ~In(k, ret.Changed) /\ ~In(k, ret.Added)
InNone(k) == ~In(k, ret.Added) /\ ~In(k, ret.Changed) /\ ~In(k, ret.Deleted)

\* The kinds of the events received for path k in the cycle.
KindsOf(k) == {e.kind : e \in {x \in rcvd : x.path = k}}

\* The checker was asked about k in this resolution, and answered b each time.
Answered(k, b) ==
    /\ \E l \in {"ren", "add", "rem"} : k \in DOMAIN checks[l]
    /\ \A l \in {"ren", "add", "rem"} : k \in DOMAIN checks[l] => checks[l][k] = b

\* The checker gave two different answers for k in this resolution.
Flapped(k) ==
    \E l1, l2 \in {"ren", "add", "rem"} :
        /\ k \in DOMAIN checks[l1] /\ k \in DOMAIN checks[l2]
        /\ checks[l1][k] # checks[l2][k]

StrictlySorted(list) ==
    \A i \in 1..(Len(list) - 1) : StrLess(list[i], list[i + 1])

\* C1: whatever events a cycle received and whatever the checker answered
\* (also when its answer for a path changed between calls), the Mod batch
\* returns has pairwise disjoint Added, Changed and Deleted.
C1_Disjoint ==
    pc = "returned" =>
        /\ Range(ret.Added) \cap Range(ret.Changed) = {}
        /\ Range(ret.Added) \cap Range(ret.Deleted) = {}
        /\ Range(ret.Changed) \cap Range(ret.Deleted) = {}

\* A resolution in which the checker changed its answer for a path that was
\* reported with at least two kinds of event, and the Mod is not empty.
C1_Witness ==
    /\ pc = "returned"
    /\ \E k \in EventPaths : Flapped(k) /\ Cardinality(KindsOf(k)) >= 2
    /\ ret # NilMod

\* C2: a post-processing error is not fatal: once a normalisation or a
\* filtering error has been logged the worker is still running (in batch,
\* after it, or sending), so it can go on to later cycles.
C2_PostErrorNonFatal ==
    lastLog # "none" => pc \in {"select", "returned", "send"}

\* C3: a cycle that received no event resolves to an empty Mod and is not
\* sent, and no Mod that is empty after normalisation and filtering is ever
\* offered on the consumer channel.
C3_EmptyNotSent ==
    [][ /\ (pc' = "returned" /\ rcvd' = {} => ret' = NilMod)
        /\ (pc = "returned" /\ rcvd = {} => pc' # "send")
        /\ (pc' = "send" =>
               ret'.Changed # <<>> \/ ret'.Deleted # <<>> \/ ret'.Added # <<>>)
      ]_vars

\* A Mod is being sent from which the filter has taken one of the two
\* paths the cycle reported.
C3_Witness ==
    /\ pc = "send"
    /\ Cardinality({e.path : e \in rcvd}) = 2
    /\ Len(ret.Added) + Len(ret.Changed) + Len(ret.Deleted) = 1
    /\ Len(excludes) = 1

\* C4: a cycle closes only when a whole quiet period has passed since the
\* last event was received (or since the cycle began); until then every
\* event received stays in the cycle, however long the cycle has lasted;
\* and the wait never outlasts the quiet period.
C4_DebounceRestart ==
    [][ /\ (pc = "select" /\ pc' # "select" => quiet = BatchTime)
        /\ (pc = "select" /\ pc' = "select" => rcvd \subseteq rcvd')
        /\ (pc' = "select" => quiet' <= BatchTime)
      ]_vars

\* A cycle that closed after lasting longer than the quiet period, with
\* two events in it.
C4_Witness ==
    /\ pc = "returned"
    /\ span > BatchTime
    /\ Cardinality(rcvd) >= 2

\* C5: when os.Stat or notify.Watch refuses a root, Watch returns the
\* error, no worker exists and no Mod is offered to the consumer.
C5_SetupErrorFatal ==
    /\ (\E i \in DOMAIN tried : tried[i] \in {"nostat", "noreg"})
          => watchRet = "err"
    /\ watchRet = "err" => pc = "none" /\ ret = NilMod

\* Watch failed at its second root; the first is registered and its events
\* pile up on the channel.
C5_Witness ==
    /\ watchRet = "err"
    /\ Len(tried) = 2
    /\ evtch # <<>>

\* C6: a path reported by Rename events alone is never in Changed; it is in
\* Added alone when the checker says it exists, in Deleted alone when the
\* checker says it does not.
C6_RenameDisambiguation ==
    pc = "returned" =>
        \A k \in EventPaths :
            KindsOf(k) = {"Rename"} =>
                /\ ~In(k, ret.Changed)
                /\ Answered(k, TRUE) => OnlyAdded(k)
                /\ Answered(k, FALSE) => OnlyDeleted(k)

\* Two renamed paths, one that exists and one that does not.
C6_Witness ==
    /\ pc = "returned"
    /\ \E k1, k2 \in EventPaths :
         /\ KindsOf(k1) = {"Rename"} /\ Answered(k1, TRUE) /\ OnlyAdded(k1)
         /\ KindsOf(k2) = {"Rename"} /\ Answered(k2, FALSE) /\ OnlyDeleted(k2)

\* C7: a path reported by Create and by Remove (and perhaps Write) that
\* does not exist at resolution is in none of the three lists.
C7_TransienceCancellation ==
    pc = "returned" =>
        \A k \in EventPaths :
            {"Create", "Remove"} \subseteq KindsOf(k) /\ Answered(k, FALSE)
                => InNone(k)

\* A created, written and removed path that is gone.
C7_Witness ==
    /\ pc = "returned"
    /\ \E k \in EventPaths :
         /\ KindsOf(k) = {"Create", "Remove", "Write"}
         /\ Answered(k, FALSE)
         /\ InNone(k)

\* C8: a path reported by Write and by Create (and perhaps Remove) that
\* exists at resolution is in Added alone.
C8_AddPrecedence ==
    pc = "returned" =>
        \A k \in EventPaths :
            {"Write", "Create"} \subseteq KindsOf(k) /\ Answered(k, TRUE)
                => OnlyAdded(k)

\* A written, created and removed path that exists.
C8_Witness ==
    /\ pc = "returned"
    /\ \E k \in EventPaths :
         /\ KindsOf(k) = {"Write", "Create", "Remove"}
         /\ Answered(k, TRUE)
         /\ OnlyAdded(k)

\* C9: a path reported by Write and by Remove and not by Create that does
\* not exist at resolution is in Deleted alone.
C9_DeletionPrecedence ==
    pc = "returned" =>
        \A k \in EventPaths :
            /\ {"Write", "Remove"} \subseteq KindsOf(k)
            /\ "Create" \notin KindsOf(k)
            /\ Answered(k, FALSE)
            => OnlyDeleted(k)

\* A written and removed path that is gone.
C9_Witness ==
    /\ pc = "returned"
    /\ \E k \in EventPaths :
         /\ KindsOf(k) = {"Write", "Remove"}
         /\ Answered(k, FALSE)
         /\ OnlyDeleted(k)

\* C10: All returns the union of the three lists, sorted and without
\* duplicates, whatever their order and overlap; Empty is true exactly when
\* the three lists are empty, which is exactly when All returns nothing.
C10_AllSortedUnion ==
    /\ "All" \in called =>
          /\ StrictlySorted(allRet)
          /\ Range(allRet) = Range(m.Changed) \cup Range(m.Added) \cup Range(m.Deleted)
    /\ "Empty" \in called =>
          (emptyRet <=> (m.Changed = <<>> /\ m.Added = <<>> /\ m.Deleted = <<>>))
    /\ {"All", "Empty"} \subseteq called => (emptyRet <=> Len(allRet) = 0)

\* All and Empty were called on a Mod whose lists overlap and whose Changed
\* is out of order.
C10_Witness ==
    /\ called = {"All", "Empty"}
    /\ ~StrictlySorted(m.Changed)
    /\ Range(m.Changed) \cap Range(m.Deleted) # {}
    /\ Range(m.Added) \cap Range(m.Deleted) # {}
    /\ Len(allRet) >= 2
    /\ ~emptyRet

\* C11: Mods reach the consumer in the order in which their cycles
\* completed: each Mod received is of a later cycle than the one received
\* before it, and every send still blocked is of a later cycle than any
\* Mod already received.
C11_DeliveryOrder ==
    [][ /\ lastDelivered' # lastDelivered => lastDelivered' > lastDelivered
        /\ \A s \in outbox' : s.cycle > lastDelivered'
      ]_vars

\* The Mod of a second cycle is blocked on the channel after the Mod of the
\* first was received, and an event waits in the buffer meanwhile.
C11_Witness ==
    /\ pc = "send"
    /\ lastDelivered = 1
    /\ \E s \in outbox : s.cycle = 2
    /\ evtch # <<>>

\* The paths of a list of batch's Mod, as normPaths gives them for the
\* session's roots.
Normalised(list) == {normPath(paths, list[i], TRUE).path : i \in DOMAIN list}

\* C12: a cycle whose post-processed Mod is not empty is sent, once and as
\* the only pending send, and holds nothing but that cycle's own paths; a
\* cycle is passed over only when every path of its Mod is excluded; a Mod
\* already received is not offered again; and with a consumer that keeps
\* receiving every Mod offered is received.
C12_OneModPerCycle ==
    /\ [][ /\ (pc = "returned" /\ pc' = "send" =>
                 /\ outbox' = {[cycle |-> cycle, mod |-> ret']}
                 /\ Range(ret'.Changed) \subseteq Normalised(ret.Changed)
                 /\ Range(ret'.Deleted) \subseteq Normalised(ret.Deleted)
                 /\ Range(ret'.Added) \subseteq Normalised(ret.Added)
                 /\ Range(ret'.Changed) \cup Range(ret'.Deleted)
                       \cup Range(ret'.Added) # {})
          /\ (pc = "returned" /\ pc' = "select" =>
                 Normalised(ret.Changed) \cup Normalised(ret.Deleted)
                   \cup Normalised(ret.Added) \subseteq Range(excludes))
          /\ Cardinality(outbox') <= 1
          /\ (\A s \in outbox' : s.cycle > lastDelivered')
          /\ (outbox' # outbox /\ outbox' = {} =>
                 \E s \in outbox : lastDelivered' = s.cycle)
        ]_vars
    /\ (pc = "send" ~> pc # "send")

\* A Mod was sent and received, and the worker is in its next cycle.
C12_Witness ==
    /\ pc = "select"
    /\ lastDelivered >= 1
    /\ outbox = {}
    /\ cycle = lastDelivered

\* C13: after a successful mod.Filter(excludes) the receiver's own Changed,
\* Deleted and Added are the filtered sequences: none of them holds an
\* excluded path any more.
C13_FilterInPlace ==
    "Filter" \in called /\ ~filterRet.err =>
        \A k \in Range(m.Changed) \cup Range(m.Deleted) \cup Range(m.Added) :
            ~Excluded(k, fexcl)

\* C14: in every Mod offered to the consumer, after normalisation and
\* filtering, each of Added, Changed and Deleted is sorted and free of
\* duplicates, whatever the watch roots are.
C14_DeliveredSorted ==
    \A s \in outbox :
        /\ StrictlySorted(s.mod.Added)
        /\ StrictlySorted(s.mod.Changed)
        /\ StrictlySorted(s.mod.Deleted)

\* The paths of the events of kind c received in the cycle.
PathsOf(c) == {e.path : e \in {x \in rcvd : x.kind = c}}

\* C15: the accumulation sets of a cycle hold the paths of the events of
\* that cycle and nothing else; the resolution asks the checker about, and
\* puts into the Mod, only paths with an event in that cycle; and a path
\* the cycle saw only written is in Changed, nothing left from an earlier
\* cycle striking it.
C15_CycleIsolation ==
    /\ pc = "select" =>
          /\ added = PathsOf("Create")
          /\ removed = PathsOf("Remove")
          /\ changed = PathsOf("Write")
          /\ renamed = PathsOf("Rename")
    /\ pc = "returned" =>
          /\ Range(ret.Added) \cup Range(ret.Changed) \cup Range(ret.Deleted)
                \subseteq {e.path : e \in rcvd}
          /\ DOMAIN checks.ren \cup DOMAIN checks.add \cup DOMAIN checks.rem
                \subseteq {e.path : e \in rcvd}
          /\ \A k \in PathsOf("Write") :
                KindsOf(k) = {"Write"} => In(k, ret.Changed)

\* The second cycle with events has resolved to a Mod that is not empty,
\* and a path of an earlier cycle has no event in it.
C15_Witness ==
    /\ pc = "returned"
    /\ cycle = 2
    /\ consumed > Cardinality(rcvd)
    /\ \E k \in EventPaths : k \notin {e.path : e \in rcvd}
    /\ Range(ret.Added) \cup Range(ret.Changed) \cup Range(ret.Deleted) # {}

\* What the kinds received for k and the checker's one answer for it say
\* about k: a candidate for Added, a candidate for Deleted.
AddCandidate(k) ==
    \/ "Create" \in KindsOf(k)
    \/ "Rename" \in KindsOf(k) /\ Answered(k, TRUE)
RemoveCandidate(k) ==
    \/ "Remove" \in KindsOf(k)
    \/ "Rename" \in KindsOf(k) /\ Answered(k, FALSE)

\* C16: when the checker answers the same for a path each time it is asked,
\* the Mod of a cycle is a function of the set of (path, kind) pairs
\* received and of those answers: the same for every arrival order, every
\* repetition of an event and every iteration order of the three loops.
C16_OrderIndependence ==
    (pc = "returned" /\ \A k \in EventPaths : ~Flapped(k)) =>
        /\ \A k \in EventPaths :
              /\ In(k, ret.Added) <=> (AddCandidate(k) /\ Answered(k, TRUE))
              /\ In(k, ret.Deleted) <=>
                    (~AddCandidate(k) /\ RemoveCandidate(k)
                       /\ Answered(k, FALSE))
              /\ In(k, ret.Changed) <=>
                    /\ "Write" \in KindsOf(k)
                    /\ ~AddCandidate(k)
                    /\ ~(RemoveCandidate(k) /\ Answered(k, FALSE))
        /\ StrictlySorted(ret.Added)
        /\ StrictlySorted(ret.Changed)
        /\ StrictlySorted(ret.Deleted)

\* One cycle received events for both paths, one of them twice, both paths
\* went through the loop over added, and the checker did not change its
\* answers.
C16_Witness ==
    /\ pc = "returned"
    /\ cycle = 1
    /\ consumed > Cardinality(rcvd)
    /\ DOMAIN checks.add = EventPaths
    /\ \A k \in EventPaths : ~Flapped(k)
    /\ ret.Added # <<>>

\* C17: while a Mod is on offer and not yet received, the worker takes no
\* event and resolves nothing, and the events that arrive are appended to
\* the buffer, which never holds more than its capacity; the receive of
\* the Mod leaves the buffer as it is and puts the worker into its next
\* cycle, which does not close before it has taken every event that was
\* waiting; and every event that entered the buffer is in it or was taken
\* by batch.
C17_Backpressure ==
    [][ /\ (outbox # {} /\ outbox' = outbox =>
               /\ UNCHANGED <<added, removed, changed, renamed, rcvd, checks,
                              consumed, ret, cycle>>
               /\ Len(evtch') >= Len(evtch)
               /\ SubSeq(evtch', 1, Len(evtch)) = evtch)
        /\ Len(evtch') <= EvtChanCap
        /\ (outbox # {} /\ outbox' = {} =>
               /\ evtch' = evtch
               /\ pc' = "select"
               /\ rcvd' = {}
               /\ backlog' = Len(evtch))
        /\ (pc = "select" /\ pc' = "returned" => backlog = 0)
        /\ produced' = Len(evtch') + consumed'
      ]_vars

\* A Mod has just been received, and two events that arrived while it was
\* on offer wait in the buffer for the next cycle.
C17_Witness ==
    /\ pc = "select"
    /\ outbox = {}
    /\ lastDelivered = 1
    /\ rcvd = {}
    /\ backlog = 2
    /\ Len(evtch) = 2

\* C18: a path with a Remove and no Create or Rename in the cycle, which
\* the checker finds to exist, is not in Deleted; with a Write in the cycle
\* it is in Changed alone, without one it is in no list.
C18_SpuriousRemoval ==
    pc = "returned" =>
        \A k \in EventPaths :
            ( /\ "Remove" \in KindsOf(k)
              /\ "Create" \notin KindsOf(k)
              /\ "Rename" \notin KindsOf(k)
              /\ k \in DOMAIN checks.rem
              /\ checks.rem[k] ) =>
                /\ ~In(k, ret.Deleted)
                /\ ~In(k, ret.Added)
                /\ In(k, ret.Changed) <=> "Write" \in KindsOf(k)

\* A path removed and written in the cycle and found to exist, next to a
\* path only removed and found to exist.
C18_Witness ==
    /\ pc = "returned"
    /\ \E k, j \in EventPaths :
         /\ KindsOf(k) = {"Remove", "Write"}
         /\ KindsOf(j) = {"Remove"}
         /\ k \in DOMAIN checks.rem /\ checks.rem[k]
         /\ j \in DOMAIN checks.rem /\ checks.rem[j]
         /\ ret.Changed = <<k>>

\* The checker was asked about k in this resolution.
Asked(k) == k \in DOMAIN checks.ren \cup DOMAIN checks.add \cup DOMAIN checks.rem

\* The checker's last answer for k: the loops run over renamed, then added,
\* then removed.
LastAnswer(k) ==
    IF k \in DOMAIN checks.rem THEN checks.rem[k]
    ELSE IF k \in DOMAIN checks.add THEN checks.add[k]
    ELSE checks.ren[k]

\* C19: in the Mod batch returns, the checker's last answer for each path
\* of Added was that it exists, and its last answer for each path of
\* Deleted was that it does not.
C19_ExistenceGroundTruth ==
    pc = "returned" =>
        /\ \A k \in Range(ret.Added) : Asked(k) /\ LastAnswer(k)
        /\ \A k \in Range(ret.Deleted) : Asked(k) /\ ~LastAnswer(k)

\* A path in Added for which the checker first said no and then yes, next
\* to a path in Deleted.
C19_Witness ==
    /\ pc = "returned"
    /\ \E k, j \in EventPaths :
         /\ In(k, ret.Added) /\ Flapped(k)
         /\ In(j, ret.Deleted)

\* C20: a path with only Write events in the cycle is in Changed and in no
\* other list, and the checker is not asked about it; a written path is
\* missing from Changed only if the cycle also had a Create or a Rename for
\* it, or a Remove and the checker found it not to exist.
C20_ChangedUnchecked ==
    pc = "returned" =>
        \A k \in EventPaths :
            /\ KindsOf(k) = {"Write"} =>
                  /\ In(k, ret.Changed)
                  /\ ~In(k, ret.Added)
                  /\ ~In(k, ret.Deleted)
                  /\ k \notin DOMAIN checks.ren
                  /\ k \notin DOMAIN checks.add
                  /\ k \notin DOMAIN checks.rem
            /\ ("Write" \in KindsOf(k) /\ ~In(k, ret.Changed)) =>
                  \/ "Create" \in KindsOf(k)
                  \/ "Rename" \in KindsOf(k)
                  \/ /\ "Remove" \in KindsOf(k)
                     /\ k \in DOMAIN checks.rem
                     /\ ~checks.rem[k]

\* A path only written, in Changed, next to a path written and removed that
\* the checker found missing and that is not in Changed.
C20_Witness ==
    /\ pc = "returned"
    /\ \E k, j \in EventPaths :
         /\ KindsOf(k) = {"Write"}
         /\ ret.Changed = <<k>>
         /\ KindsOf(j) = {"Write", "Remove"}
         /\ ret.Deleted = <<j>>

====
